---- MODULE Spec2Model ----
(***************************************************************************)
(* Model of scratchpad/create_scan_form.py: the script that builds the     *)
(* MindtheGaps Scan Worksheet question registry with add() and submits it  *)
(* once through client.create_form().                                      *)
(*                                                                         *)
(* Two specifications share the same add / assemble / submit code:         *)
(*   Spec        - the script itself, statement by statement, run up to    *)
(*                 MaxRuns times (each run re-executes the module body);   *)
(*   SpecSession - a build session that calls add() with arbitrary         *)
(*                 arguments (at most MaxAdds calls) and then assembles    *)
(*                 and submits exactly as lines 140-148 do.                *)
(***************************************************************************)
EXTENDS Integers, Sequences, FiniteSets, TLC

VARIABLES q, order_num, pc, idx, i, k, form_def, result, out, sent, run, log

vars == <<q, order_num, pc, idx, i, k, form_def, result, out, sent, run, log>>

(* ------------------------------ bounds --------------------------------- *)

\* how many times the script is executed
MaxRuns == 2

\* how many add() calls a build session makes at most
MaxAdds == 2

(* ------------------------- Python value helpers ------------------------ *)

\* Python None and a present string value
None == <<>>

Some(s) == <<s>>

\* truth value of an optional string: None and '' are falsy
Truthy(o) == Len(o) > 0 /\ o[1] # ""

\* the empty dict
EmptyDict == [key \in {} |-> ""]

NoExtra == EmptyDict

\* dict.update / item assignment: keys of e override keys of d
Update(d, e) ==
    [key \in DOMAIN d \cup DOMAIN e |-> IF key \in DOMAIN e THEN e[key] ELSE d[key]]

\* dict.get(key) as it is printed: a missing key gives None
Get(d, key) == IF key \in DOMAIN d THEN d[key] ELSE "None"

Digit == <<"0", "1", "2", "3", "4", "5", "6", "7", "8", "9">>

\* str(n) for a non-negative integer: its decimal digits
RECURSIVE str(_)
str(n) == IF n < 10 THEN Digit[n + 1] ELSE str(n \div 10) \o Digit[(n % 10) + 1]

\* defaults of add's signature
DefaultRequired == "Yes"

DefaultOptions == None

(* ------------------------ the script's declarations -------------------- *)

\* add calls of sections 1-4 and the section 5 header (lines 21-112)
Pre == <<
    \* line 21
    [qtype |-> "control_head", text |-> "Section 1: Call Metadata & Quiz Recap",
     name |-> "sec1Header", required |-> "No",
     options |-> DefaultOptions,
     extra |-> ("subHeader" :> "Prefilled from quiz submission. Confirm details with client.")],
    \* line 23
    [qtype |-> "control_email", text |-> "Contact Email",
     name |-> "contactEmail", required |-> DefaultRequired,
     options |-> DefaultOptions,
     extra |-> NoExtra],
    \* line 24
    [qtype |-> "control_textbox", text |-> "First Name",
     name |-> "scanFirstName", required |-> DefaultRequired,
     options |-> DefaultOptions,
     extra |-> NoExtra],
    \* line 25
    [qtype |-> "control_textbox", text |-> "Business Name",
     name |-> "scanBusinessName", required |-> DefaultRequired,
     options |-> DefaultOptions,
     extra |-> NoExtra],
    \* line 26
    [qtype |-> "control_dropdown", text |-> "Industry",
     name |-> "scanIndustry", required |-> DefaultRequired,
     options |-> Some("Home Services|Health & Wellness|Professional Services|Financial Services|Automotive|Real Estate|Legal|Dental / Medical|Trades / Contracting|Beauty / Personal Care|Insurance|Fitness / Recreation|Other"),
     extra |-> NoExtra],
    \* line 28
    [qtype |-> "control_phone", text |-> "Phone",
     name |-> "scanPhone", required |-> "No",
     options |-> DefaultOptions,
     extra |-> NoExtra],
    \* line 29
    [qtype |-> "control_dropdown", text |-> "Primary Gap from Quiz",
     name |-> "quizPrimaryGap", required |-> DefaultRequired,
     options |-> Some("Acquisition|Conversion|Retention"),
     extra |-> NoExtra],
    \* line 33
    [qtype |-> "control_head", text |-> "Section 2: Gap Confirmation & Sub-Path",
     name |-> "sec2Header", required |-> "No",
     options |-> DefaultOptions,
     extra |-> ("subHeader" :> "Confirm or update the primary gap, then select the sub-path")],
    \* line 35
    [qtype |-> "control_dropdown", text |-> "Confirmed Primary Gap",
     name |-> "primaryGap", required |-> DefaultRequired,
     options |-> Some("Acquisition|Conversion|Retention"),
     extra |-> NoExtra],
    \* line 37
    [qtype |-> "control_textarea", text |-> "Reason for Gap Change (if different from quiz)",
     name |-> "gapChangeReason", required |-> "No",
     options |-> DefaultOptions,
     extra |-> NoExtra],
    \* line 40
    [qtype |-> "control_dropdown", text |-> "Sub-Path (Conversion)",
     name |-> "subPathConversion", required |-> "No",
     options |-> Some("Speed-to-lead|Booking friction|Show rate|Quote follow-up / decision drop-off|Other (manual)"),
     extra |-> NoExtra],
    \* line 42
    [qtype |-> "control_dropdown", text |-> "Sub-Path (Acquisition)",
     name |-> "subPathAcquisition", required |-> "No",
     options |-> Some("Channel concentration risk|Demand capture / local visibility|Lead capture friction|Fit mismatch|Referral / partner flow is not intentional|Other (manual)"),
     extra |-> NoExtra],
    \* line 44
    [qtype |-> "control_dropdown", text |-> "Sub-Path (Retention)",
     name |-> "subPathRetention", required |-> "No",
     options |-> Some("Rebook/recall gap|Review rhythm gap|Referral ask gap|Post-service follow-up gap|Other (manual)"),
     extra |-> NoExtra],
    \* line 48
    [qtype |-> "control_head", text |-> "Section 3: Tier-1 Baseline Metrics",
     name |-> "sec3Header", required |-> "No",
     options |-> DefaultOptions,
     extra |-> ("subHeader" :> "Fill in baseline fields for the confirmed primary gap. Need at least 5 non-Not sure answers.")],
    \* line 52
    [qtype |-> "control_dropdown", text |-> "[Conv] Inbound leads per month",
     name |-> "convInboundLeads", required |-> "No",
     options |-> Some("0-10|11-25|26-50|51-100|100+|Not sure"),
     extra |-> NoExtra],
    \* line 54
    [qtype |-> "control_dropdown", text |-> "[Conv] Typical first response time",
     name |-> "convFirstResponseTime", required |-> "No",
     options |-> Some("<1 hour|Same day|1-2 days|3+ days|Not sure"),
     extra |-> NoExtra],
    \* line 56
    [qtype |-> "control_dropdown", text |-> "[Conv] Lead to booked %",
     name |-> "convLeadToBooked", required |-> "No",
     options |-> Some("0-20%|21-40%|41-60%|61%+|Not sure"),
     extra |-> NoExtra],
    \* line 58
    [qtype |-> "control_dropdown", text |-> "[Conv] Booked to show %",
     name |-> "convBookedToShow", required |-> "No",
     options |-> Some("0-40%|41-60%|61-80%|81%+|Not sure"),
     extra |-> NoExtra],
    \* line 60
    [qtype |-> "control_dropdown", text |-> "[Conv] Time to first appointment",
     name |-> "convTimeToFirstAppt", required |-> "No",
     options |-> Some("Same day|1-3 days|4-7 days|8-14 days|15+ days|Not sure"),
     extra |-> NoExtra],
    \* line 62
    [qtype |-> "control_dropdown", text |-> "[Conv] Quote sent timeline",
     name |-> "convQuoteSentTimeline", required |-> "No",
     options |-> Some("Same day|48 hours|3-5 days|7+ days|Not sure"),
     extra |-> NoExtra],
    \* line 64
    [qtype |-> "control_dropdown", text |-> "[Conv] Quote to close %",
     name |-> "convQuoteToClose", required |-> "No",
     options |-> Some("0-10%|11-20%|21-30%|31-50%|51%+|Not sure"),
     extra |-> NoExtra],
    \* line 68
    [qtype |-> "control_dropdown", text |-> "[Acq] Inbound leads per month",
     name |-> "acqInboundLeads", required |-> "No",
     options |-> Some("0-10|11-25|26-50|51-100|100+|Not sure"),
     extra |-> NoExtra],
    \* line 70
    [qtype |-> "control_dropdown", text |-> "[Acq] Top lead source dependence",
     name |-> "acqTopSourceDep", required |-> "No",
     options |-> Some("1 source|2 sources|3-4 sources|5+ sources|Not sure"),
     extra |-> NoExtra],
    \* line 72
    [qtype |-> "control_dropdown", text |-> "[Acq] % of leads from top source",
     name |-> "acqPctFromTopSource", required |-> "No",
     options |-> Some("0-40%|41-60%|61-80%|81%+|Not sure"),
     extra |-> NoExtra],
    \* line 74
    [qtype |-> "control_dropdown", text |-> "[Acq] Calls answered live",
     name |-> "acqCallsAnsweredLive", required |-> "No",
     options |-> Some("Always|Often|Sometimes|Rarely|Not sure|Not applicable"),
     extra |-> NoExtra],
    \* line 76
    [qtype |-> "control_dropdown", text |-> "[Acq] Website lead capture friction",
     name |-> "acqWebsiteCaptureFriction", required |-> "No",
     options |-> Some("Low|Medium|High|Not sure"),
     extra |-> NoExtra],
    \* line 78
    [qtype |-> "control_dropdown", text |-> "[Acq] Reviews per month",
     name |-> "acqReviewsPerMonth", required |-> "No",
     options |-> Some("0|1-2|3-5|6+|Not sure"),
     extra |-> NoExtra],
    \* line 80
    [qtype |-> "control_dropdown", text |-> "[Acq] Referral intros per month",
     name |-> "acqReferralIntrosPerMonth", required |-> "No",
     options |-> Some("0|1-2|3-5|6+|Not sure"),
     extra |-> NoExtra],
    \* line 84
    [qtype |-> "control_dropdown", text |-> "[Ret] % revenue from repeat",
     name |-> "retPctRevenueRepeat", required |-> "No",
     options |-> Some("0-20%|21-40%|41-60%|61%+|Not sure"),
     extra |-> NoExtra],
    \* line 86
    [qtype |-> "control_dropdown", text |-> "[Ret] % revenue from referrals",
     name |-> "retPctRevenueReferrals", required |-> "No",
     options |-> Some("0-10%|11-20%|21-30%|31%+|Not sure"),
     extra |-> NoExtra],
    \* line 88
    [qtype |-> "control_dropdown", text |-> "[Ret] Rebook/next-step scheduling",
     name |-> "retRebookScheduling", required |-> "No",
     options |-> Some("Always scheduled|Often|Sometimes|Rarely|Not sure"),
     extra |-> NoExtra],
    \* line 90
    [qtype |-> "control_dropdown", text |-> "[Ret] Reviews per month",
     name |-> "retReviewsPerMonth", required |-> "No",
     options |-> Some("0|1-2|3-5|6+|Not sure"),
     extra |-> NoExtra],
    \* line 92
    [qtype |-> "control_dropdown", text |-> "[Ret] Time to follow-up after service",
     name |-> "retFollowUpTime", required |-> "No",
     options |-> Some("Same day|1-2 days|3-7 days|8+ days|Not sure"),
     extra |-> NoExtra],
    \* line 94
    [qtype |-> "control_dropdown", text |-> "[Ret] Customer check-in rhythm",
     name |-> "retCheckInRhythm", required |-> "No",
     options |-> Some("Yes (scheduled)|Yes (ad hoc)|No|Not sure"),
     extra |-> NoExtra],
    \* line 98
    [qtype |-> "control_head", text |-> "Section 4: One Lever to Fix First",
     name |-> "sec4Header", required |-> "No",
     options |-> DefaultOptions,
     extra |-> ("subHeader" :> "Choose the primary lever for the client plan")],
    \* line 101
    [qtype |-> "control_dropdown", text |-> "One Lever (Conversion)",
     name |-> "oneLeverConversion", required |-> "No",
     options |-> Some("Response ownership + SLA + follow-up sequence|Booking standardization (one path) + confirmations/reminders|Show-rate lift package (what to expect + reminders + prep)|Quote turnaround + after-quote follow-up package|Other (manual)"),
     extra |-> NoExtra],
    \* line 103
    [qtype |-> "control_dropdown", text |-> "One Lever (Acquisition)",
     name |-> "oneLeverAcquisition", required |-> "No",
     options |-> Some("Add a secondary warm channel + weekly cadence|Fix lead capture path (one page, one CTA, one follow-up path)|Call handling + response ownership + SLA|Qualification gate (2-3 questions) to improve fit|Review generation rhythm (simple ask + timing)|Other (manual)"),
     extra |-> NoExtra],
    \* line 105
    [qtype |-> "control_dropdown", text |-> "One Lever (Retention)",
     name |-> "oneLeverRetention", required |-> "No",
     options |-> Some("Rebook/recall system (prompt + script + schedule)|Review + referral moment (timing + script + 2-step ask)|Post-service check-in (30-day touch + simple template)|Win-back for dormant clients (light touch sequence)|Other (manual)"),
     extra |-> NoExtra],
    \* line 108
    [qtype |-> "control_textarea", text |-> "What we fix first (one sentence, max 160 chars)",
     name |-> "oneLeverSentence", required |-> DefaultRequired,
     options |-> DefaultOptions,
     extra |-> NoExtra],
    \* line 111
    [qtype |-> "control_head", text |-> "Section 5: 6 Actions (Next 30 Days)",
     name |-> "sec5Header", required |-> "No",
     options |-> DefaultOptions,
     extra |-> ("subHeader" :> "All 6 action slots must be filled with description, owner, and due date")]
>>

\* the section 5 loop: for i in range(1, 7)
LoopRangeInclusive == 1..7

LoopRange == 1..6

\* the three add calls of the loop body (lines 115-117), for index n
LoopBody(n) == <<
    [qtype |-> "control_textbox", text |-> "Action " \o str(n) \o " - Description",
     name |-> "action" \o str(n) \o "Desc", required |-> DefaultRequired,
     options |-> DefaultOptions, extra |-> NoExtra],
    [qtype |-> "control_textbox", text |-> "Action " \o str(n) \o " - Owner",
     name |-> "action" \o str(n) \o "Owner", required |-> DefaultRequired,
     options |-> DefaultOptions, extra |-> NoExtra],
    [qtype |-> "control_datetime", text |-> "Action " \o str(n) \o " - Due Date",
     name |-> "action" \o str(n) \o "Due", required |-> DefaultRequired,
     options |-> DefaultOptions, extra |-> NoExtra]
>>

\* add calls of sections 6-7 and the submit button (lines 120-138)
Post == <<
    \* line 120
    [qtype |-> "control_head", text |-> "Section 6: Weekly Scorecard Metrics",
     name |-> "sec6Header", required |-> "No",
     options |-> DefaultOptions,
     extra |-> ("subHeader" :> "Select 2-4 metrics to track weekly progress")],
    \* line 123
    [qtype |-> "control_checkbox", text |-> "Scorecard Metrics (Conversion)",
     name |-> "metricsConversion", required |-> "No",
     options |-> Some("Median response time|Lead to booked %|Show rate %|Quote sent within 48h %"),
     extra |-> NoExtra],
    \* line 125
    [qtype |-> "control_checkbox", text |-> "Scorecard Metrics (Acquisition)",
     name |-> "metricsAcquisition", required |-> "No",
     options |-> Some("Leads/week|% leads from top source|Calls answered live %|Median response time|Reviews/week|Referral intros/week"),
     extra |-> NoExtra],
    \* line 127
    [qtype |-> "control_checkbox", text |-> "Scorecard Metrics (Retention)",
     name |-> "metricsRetention", required |-> "No",
     options |-> Some("Rebook rate (or count)|Reviews/week|Referral intros/week|30-day follow-up completion %|Repeat revenue band"),
     extra |-> NoExtra],
    \* line 131
    [qtype |-> "control_head", text |-> "Section 7: Constraints & Risks",
     name |-> "sec7Header", required |-> "No",
     options |-> DefaultOptions,
     extra |-> ("subHeader" :> "Optional for High confidence; at least 1 required for Med/Low")],
    \* line 133
    [qtype |-> "control_textarea", text |-> "Constraint 1",
     name |-> "constraint1", required |-> "No",
     options |-> DefaultOptions,
     extra |-> NoExtra],
    \* line 134
    [qtype |-> "control_textarea", text |-> "Constraint 2",
     name |-> "constraint2", required |-> "No",
     options |-> DefaultOptions,
     extra |-> NoExtra],
    \* line 135
    [qtype |-> "control_textarea", text |-> "Constraint 3",
     name |-> "constraint3", required |-> "No",
     options |-> DefaultOptions,
     extra |-> NoExtra],
    \* line 138
    [qtype |-> "control_button", text |-> "Submit Scan Worksheet",
     name |-> "scanSubmit", required |-> "No",
     options |-> DefaultOptions,
     extra |-> NoExtra]
>>

Title == "MindtheGaps Scan Worksheet"

\* replies the collaborator may give: a dict with or without id / url
Replies == {
    ("id" :> "abc123") @@ ("url" :> "https://x"),
    ("url" :> "https://x"),
    EmptyDict
}

(* --------------------- inputs of a build session ----------------------- *)

SessionTypes == {"control_textbox", "control_dropdown", "control_checkbox"}

SessionTexts == {"T"}

SessionNames == {"", "a"}

SessionRequired == {DefaultRequired}

SessionOptions == {None, Some(""), Some("A|B")}

SessionExtras == {
    NoExtra,
    ("subHeader" :> "s"),
    ("order" :> "7"),
    ("type" :> "control_head")
}

(* ------------------------------- add ----------------------------------- *)

\* the entry add builds (lines 13-16)
Entry(qtype, text, name, required, options, extra) ==
    LET base == [type |-> qtype, text |-> text, name |-> name,
                 order |-> str(order_num), required |-> required]
        withExtra == Update(base, extra)
    IN  IF Truthy(options)
        THEN Update(withExtra, "options" :> options[1])
        ELSE withExtra

\* add with the counter advanced by two
addSkip(qtype, text, name, required, options, extra) ==
    /\ q' = Update(q, str(order_num) :> Entry(qtype, text, name, required, options, extra))
    /\ order_num' = order_num + 2

\* def add(qtype, text, name, required='Yes', options=None, **extra)
add(qtype, text, name, required, options, extra) ==
    /\ q' = Update(q, str(order_num) :> Entry(qtype, text, name, required, options, extra))
    /\ order_num' = order_num + 1

\* a call site: add(...) with the declared arguments, recorded in log
Call(a) ==
    /\ add(a.qtype, a.text, a.name, a.required, a.options, a.extra)
    /\ log' = Append(log, a)

(* ------------------------------ states --------------------------------- *)

\* line 9: order_num = 1
InitialOrderNum == 1

Fresh ==
    /\ q = EmptyDict
    /\ order_num = InitialOrderNum
    /\ idx = 1
    /\ i = 0
    /\ k = 0
    /\ form_def = EmptyDict
    /\ result = EmptyDict
    /\ out = <<>>
    /\ sent = <<>>
    /\ run = 1
    /\ log = <<>>

Init ==
    /\ Fresh
    /\ pc = "build"

InitSession ==
    /\ Fresh
    /\ pc = "session"

(* --------------------------- script steps ------------------------------ *)

\* lines 21-112: the next add call of sections 1-5
AddPre ==
    /\ pc = "build"
    /\ Call(Pre[idx])
    /\ IF idx < Len(Pre)
       THEN idx' = idx + 1 /\ pc' = pc /\ i' = i /\ k' = k
       ELSE idx' = 1 /\ pc' = "loop" /\ i' = 1 /\ k' = 1
    /\ UNCHANGED <<form_def, result, out, sent, run>>

\* lines 114-117: the next add call of the loop body
LoopAdd ==
    /\ pc = "loop"
    /\ i \in LoopRange
    /\ Call(LoopBody(i)[k])
    /\ IF k < 3
       THEN k' = k + 1 /\ i' = i /\ pc' = pc
       ELSE IF i + 1 \in LoopRange
            THEN k' = 1 /\ i' = i + 1 /\ pc' = pc
            ELSE k' = 0 /\ i' = i /\ pc' = "post"
    /\ UNCHANGED <<idx, form_def, result, out, sent, run>>

\* lines 120-138: the next add call of sections 6-7 and the button
AddPost ==
    /\ pc = "post"
    /\ Call(Post[idx])
    /\ IF idx < Len(Post)
       THEN idx' = idx + 1 /\ pc' = pc
       ELSE idx' = 1 /\ pc' = "assemble"
    /\ UNCHANGED <<i, k, form_def, result, out, sent, run>>

\* lines 140-143: form_def = {'properties': {'title': ...}, 'questions': q}
Assemble ==
    /\ pc = "assemble"
    /\ form_def' = [properties |-> [title |-> Title], questions |-> q]
    /\ pc' = "submit"
    /\ UNCHANGED <<q, order_num, idx, i, k, result, out, sent, run, log>>

\* line 145: result = client.create_form(form_def), the call returns
CreateFormOk ==
    /\ pc = "submit"
    /\ sent' = Append(sent, [run |-> run, form |-> form_def])
    /\ \E r \in Replies : result' = r
    /\ pc' = "print1"
    /\ UNCHANGED <<q, order_num, idx, i, k, form_def, out, run, log>>

\* line 145 with the faulting call issued again instead of propagating
CreateFormFaultRetry ==
    /\ pc = "submit"
    /\ Len(sent) < 2 * MaxRuns
    /\ sent' = Append(sent, [run |-> run, form |-> form_def])
    /\ pc' = "submit"
    /\ UNCHANGED <<q, order_num, idx, i, k, form_def, result, out, run, log>>

\* line 145: client.create_form raises; nothing catches it, the script ends
CreateFormFault ==
    /\ pc = "submit"
    /\ sent' = Append(sent, [run |-> run, form |-> form_def])
    /\ pc' = "raised"
    /\ UNCHANGED <<q, order_num, idx, i, k, form_def, result, out, run, log>>

\* line 146
Print1 ==
    /\ pc = "print1"
    /\ out' = Append(out, <<"Scan Worksheet Form Created!">>)
    /\ pc' = "print2"
    /\ UNCHANGED <<q, order_num, idx, i, k, form_def, result, sent, run, log>>

\* line 147
Print2 ==
    /\ pc = "print2"
    /\ out' = Append(out, <<"Form ID:", Get(result, "id")>>)
    /\ pc' = "print3"
    /\ UNCHANGED <<q, order_num, idx, i, k, form_def, result, sent, run, log>>

\* line 148
Print3 ==
    /\ pc = "print3"
    /\ out' = Append(out, <<"Form URL:", Get(result, "url")>>)
    /\ pc' = "done"
    /\ UNCHANGED <<q, order_num, idx, i, k, form_def, result, sent, run, log>>

\* a second execution that starts from the registry the first one left
RerunKeep ==
    /\ pc \in {"done", "raised"}
    /\ run < MaxRuns
    /\ run' = run + 1
    /\ pc' = "build"
    /\ idx' = 1 /\ i' = 0 /\ k' = 0
    /\ form_def' = EmptyDict /\ result' = EmptyDict
    /\ out' = <<>> /\ log' = <<>>
    /\ UNCHANGED <<q, order_num, sent>>

\* the script is executed again: the module body runs from the top, lines
\* 8-9 rebind q and order_num; what the service already received stays
Rerun ==
    /\ pc \in {"done", "raised"}
    /\ run < MaxRuns
    /\ run' = run + 1
    /\ q' = EmptyDict
    /\ order_num' = InitialOrderNum
    /\ pc' = "build"
    /\ idx' = 1 /\ i' = 0 /\ k' = 0
    /\ form_def' = EmptyDict /\ result' = EmptyDict
    /\ out' = <<>> /\ log' = <<>>
    /\ UNCHANGED sent

Next ==
    \/ AddPre
    \/ LoopAdd
    \/ AddPost
    \/ Assemble
    \/ CreateFormOk
    \/ CreateFormFault
    \/ Print1
    \/ Print2
    \/ Print3
    \/ Rerun

Spec == Init /\ [][Next]_vars

(* ------------------------ build session steps -------------------------- *)

\* one add call with arguments chosen by the caller
SessionAdd ==
    /\ pc = "session"
    /\ Len(log) < MaxAdds
    /\ \E qtype \in SessionTypes, text \in SessionTexts, name \in SessionNames,
          required \in SessionRequired, options \in SessionOptions,
          extra \in SessionExtras :
          Call([qtype |-> qtype, text |-> text, name |-> name,
                required |-> required, options |-> options, extra |-> extra])
    /\ UNCHANGED <<pc, idx, i, k, form_def, result, out, sent, run>>

\* lines 140-143 after the session's last add call
SessionAssemble ==
    /\ pc = "session"
    /\ form_def' = [properties |-> [title |-> Title], questions |-> q]
    /\ pc' = "submit"
    /\ UNCHANGED <<q, order_num, idx, i, k, result, out, sent, run, log>>

NextSession ==
    \/ SessionAdd
    \/ SessionAssemble
    \/ CreateFormOk
    \/ CreateFormFault
    \/ Print1
    \/ Print2
    \/ Print3

SpecSession == InitSession /\ [][NextSession]_vars

(* ------------------- vocabulary of the properties ---------------------- *)

ChoiceTypes == {"control_dropdown", "control_checkbox"}

HeaderType == "control_head"

\* the integer an order token written by add stands for
TokenValue(t) == CHOOSE n \in 0..order_num : str(n) = t

OrderOf(reg, key) == TokenValue(reg[key].order)

Orders(reg) == {reg[key].order : key \in DOMAIN reg}

Names(reg) == {reg[key].name : key \in DOMAIN reg}

\* the order values are exactly 1..length
Contiguous(reg) == Orders(reg) = {str(n) : n \in 1..Cardinality(DOMAIN reg)}

NoRepeatedOrder(reg) ==
    \A a, b \in DOMAIN reg : a # b => reg[a].order # reg[b].order

UniqueNames(reg) ==
    \A a, b \in DOMAIN reg : a # b => reg[a].name # reg[b].name

Headers(reg) == {key \in DOMAIN reg : reg[key].type = HeaderType}

\* the header that opens the section an entry lies in: the last header at or
\* before the entry
SectionOf(reg, key) ==
    CHOOSE h \in Headers(reg) :
        /\ OrderOf(reg, h) <= OrderOf(reg, key)
        /\ \A g \in Headers(reg) :
              OrderOf(reg, g) <= OrderOf(reg, key) => OrderOf(reg, g) <= OrderOf(reg, h)

\* submissions made by the current run
Mine == {j \in DOMAIN sent : sent[j].run = run}

AfterLoop == {"post", "assemble", "submit", "print1", "print2", "print3", "done", "raised"}

AfterSubmit == {"print1", "print2", "print3", "done", "raised"}

\* number of add calls the script makes in one run
ScriptCalls == Len(Pre) + 3 * Cardinality(LoopRange) + Len(Post)

\* a call that a validating factory has to reject
MissingOptions(a) == a.qtype \in ChoiceTypes /\ ~Truthy(a.options)

(* ------------------------------ claims --------------------------------- *)

\* C1: after any sequence of add calls, and in every schema handed to
\* create_form, the order values of the entries are exactly 1..length, with
\* no gap and no value occurring twice.
C1_OrdersContiguous ==
    /\ Contiguous(q) /\ NoRepeatedOrder(q)
    /\ \A j \in DOMAIN sent :
          /\ Contiguous(sent[j].form.questions)
          /\ NoRepeatedOrder(sent[j].form.questions)

\* C2: in every schema handed to create_form the question names are
\* pairwise different, whatever add calls built it.
C2_SubmittedNamesUnique ==
    \A j \in DOMAIN sent : UniqueNames(sent[j].form.questions)

\* C3: an add call of a choice kind with empty or missing options registers
\* nothing, and the registry never holds a choice-kind entry without
\* non-empty options.
C3_ChoiceNeedsOptions ==
    /\ Cardinality(DOMAIN q) <=
          Cardinality({j \in DOMAIN log : ~MissingOptions(log[j])})
    /\ \A key \in DOMAIN q :
          q[key].type \in ChoiceTypes =>
              "options" \in DOMAIN q[key] /\ q[key].options # ""

\* C4: an add call whose name is empty or already carried by a registered
\* entry leaves the registry as it was (it fails instead of registering).
C4_BadNameRejected ==
    [][(Len(log') = Len(log) + 1 /\
        (log'[Len(log')].name = "" \/ log'[Len(log')].name \in Names(q)))
          => q' = q]_vars

\* C5: once the section 5 loop has finished, exactly 18 entries follow the
\* section 5 header in its section; the entry for index n and field position
\* f (0..2) is named action<n><field> and sits at relative order
\* 3*(n-1)+f+1, so action1Desc is at relative order 1 and action6Due at 18.
C5_ActionBlock ==
    pc \in AfterLoop =>
        LET h == CHOOSE key \in DOMAIN q : q[key].name = "sec5Header"
            base == OrderOf(q, h)
            field == <<"Desc", "Owner", "Due">>
            block == {key \in DOMAIN q :
                        /\ q[key].type # HeaderType
                        /\ OrderOf(q, key) > base
                        /\ SectionOf(q, key) = h}
        IN  /\ Cardinality(block) = 18
            /\ \A n \in 1..6, f \in 0..2 :
                  \E key \in block :
                      /\ OrderOf(q, key) = base + 3 * (n - 1) + f + 1
                      /\ q[key].name = "action" \o str(n) \o field[f + 1]
            /\ \E key \in block :
                  OrderOf(q, key) = base + 1 /\ q[key].name = "action1Desc"
            /\ \E key \in block :
                  OrderOf(q, key) = base + 18 /\ q[key].name = "action6Due"

\* C5 witness: the loop has finished and action6Due is registered
C5_Witness ==
    /\ pc = "post"
    /\ \E key \in DOMAIN q : q[key].name = "action6Due"

\* C6: create_form is never invoked with an empty registry or with one whose
\* order sequence has a gap or a duplicate (assembly fails before the call).
C6_NoDefectiveSchemaSent ==
    \A j \in DOMAIN sent :
        LET reg == sent[j].form.questions
        IN  /\ DOMAIN reg # {}
            /\ Contiguous(reg)
            /\ NoRepeatedOrder(reg)

\* C7: a run invokes create_form at most once, only after its last add call,
\* exactly once by the time it prints or ends; no add call follows the
\* submission, and when create_form raises the run ends with the single call
\* made and nothing printed.
C7_SubmittedOnce ==
    /\ Cardinality(Mine) <= 1
    /\ pc \in AfterSubmit => Cardinality(Mine) = 1
    /\ pc \notin AfterSubmit => Mine = {}
    /\ \A j \in Mine :
          /\ sent[j].form.questions = q
          /\ Len(log) = ScriptCalls
          /\ order_num = ScriptCalls + 1
    /\ pc = "raised" => out = <<>>

\* C7 witness: create_form raised after the run's one submission
C7_Witness ==
    /\ pc = "raised"
    /\ Cardinality(Mine) = 1

C9_SectionsContiguous ==
    /\ \A key \in Headers(q) : q[key].required = "No"
    /\ DOMAIN q # {} =>
          \E key \in Headers(q) : q[key].order = "1"
    /\ \A key \in DOMAIN q \ Headers(q) :
          \E p \in DOMAIN q :
              /\ OrderOf(q, p) + 1 = OrderOf(q, key)
              /\ SectionOf(q, p) = SectionOf(q, key)

\* C9 witness: a submitted schema with seven headers and members
C9_Witness ==
    /\ pc = "done"
    /\ Cardinality(Headers(q)) = 7
    /\ Cardinality(DOMAIN q \ Headers(q)) = 60

\* C10: the entry registered by the j-th add call is stored under the token
\* of its own order field and carries the type, text, name and required
\* arguments of that call, also when the call passes extra keywords; entries
\* of earlier calls stay as they were registered.
C10_EntryMatchesArguments ==
    \A j \in DOMAIN log :
        /\ str(j) \in DOMAIN q
        /\ q[str(j)].order = str(j)
        /\ q[str(j)].type = log[j].qtype
        /\ q[str(j)].text = log[j].text
        /\ q[str(j)].name = log[j].name
        /\ q[str(j)].required = log[j].required

====
